---- MODULE Spec2Model ----
(***************************************************************************)
(* Model of the disavow tool (src/src/app/page.tsx): the tokenizer, the    *)
(* URL classifier, the canonicalizer, the pipeline of parseDomains and     *)
(* runProcessing, and the handlers of the Home component.                  *)
(*                                                                         *)
(* A JavaScript string is modelled as a sequence of one-character strings, *)
(* so "a.b" is <<"a", ".", "b">> and the empty string is <<>>.  A list of   *)
(* strings is a sequence of such sequences.                                *)
(***************************************************************************)
EXTENDS Integers, Sequences, FiniteSets, TLC

(***************************************************************************)
(* JavaScript built-ins used by the source                                 *)
(***************************************************************************)

\* null (of string | null); no string equals it, since "null" is no character
Null == <<"null">>

LowerLetters ==
  <<"a","b","c","d","e","f","g","h","i","j","k","l","m",
    "n","o","p","q","r","s","t","u","v","w","x","y","z">>

UpperLetters ==
  <<"A","B","C","D","E","F","G","H","I","J","K","L","M",
    "N","O","P","Q","R","S","T","U","V","W","X","Y","Z">>

DigitChars == <<"0","1","2","3","4","5","6","7","8","9">>

Range(f) == { f[i] : i \in DOMAIN f }

IsUpper(c) == c \in Range(UpperLetters)

IsAlpha(c) == c \in Range(UpperLetters) \cup Range(LowerLetters)

IsDigit(c) == c \in Range(DigitChars)

\* the characters String.prototype.trim removes (those the model's texts hold)
WhiteSpace == {" ", "\t", "\n", "\r", "\f"}

LowerChar(c) ==
  IF IsUpper(c)
    THEN LowerLetters[CHOOSE i \in DOMAIN UpperLetters : UpperLetters[i] = c]
    ELSE c

\* String.prototype.toLowerCase
ToLowerCase(s) == [i \in 1..Len(s) |-> LowerChar(s[i])]

\* String.prototype.startsWith
StartsWith(s, p) == Len(s) >= Len(p) /\ SubSeq(s, 1, Len(p)) = p

\* String.prototype.includes
Includes(s, p) == \E i \in 1..(Len(s) - Len(p) + 1) : SubSeq(s, i, i + Len(p) - 1) = p

\* String.prototype.trim
Trim(s) ==
  LET keep == { i \in 1..Len(s) : s[i] \notin WhiteSpace }
  IN  IF keep = {} THEN <<>>
      ELSE LET lo == CHOOSE i \in keep : \A j \in keep : i <= j
               hi == CHOOSE i \in keep : \A j \in keep : j <= i
           IN  SubSeq(s, lo, hi)

\* s.replace(/\r/g, "\n")
ReplaceCR(s) == [i \in 1..Len(s) |-> IF s[i] = "\r" THEN "\n" ELSE s[i]]

\* the character class of the split pattern /[\n,;\t]+/
SplitChars == {"\n", ",", ";", "\t"}

RECURSIVE SplitRec(_, _, _, _)
SplitRec(s, i, cur, acc) ==
  IF i > Len(s) THEN Append(acc, cur)
  ELSE IF s[i] \in SplitChars
    THEN IF i > 1 /\ s[i-1] \in SplitChars
           THEN SplitRec(s, i + 1, cur, acc)
           ELSE SplitRec(s, i + 1, <<>>, Append(acc, cur))
    ELSE SplitRec(s, i + 1, Append(cur, s[i]), acc)

\* s.split(/[\n,;\t]+/): the pieces between the maximal runs of split
\* characters; a leading or trailing run leaves an empty first or last piece
SplitOnDelimiters(s) == SplitRec(s, 1, <<>>, <<>>)

\* Array.prototype.map((x) => x.trim())
MapTrim(list) == [i \in 1..Len(list) |-> Trim(list[i])]

\* Boolean(x) of a string, and !!item of a string | null
Truthy(x) == x # <<>> /\ x # Null

\* Array.prototype.filter(Boolean)
FilterBoolean(list) == SelectSeq(list, Truthy)

RECURSIVE UniqueRec(_, _)
UniqueRec(list, acc) ==
  IF list = <<>> THEN acc
  ELSE IF Head(list) \in Range(acc)
    THEN UniqueRec(Tail(list), acc)
    ELSE UniqueRec(Tail(list), Append(acc, Head(list)))

RECURSIVE Reverse(_)
Reverse(list) == IF list = <<>> THEN <<>> ELSE Append(Reverse(Tail(list)), Head(list))

\* ArrayFromSet keeping each value at its last occurrence, not its first
ArrayFromSetLast(list) == Reverse(UniqueRec(Reverse(list), <<>>))

\* Array.from(new Set(list)): a Set iterates in insertion order
ArrayFromSet(list) == UniqueRec(list, <<>>)

\* s.split(/[/?#]/)[0]
BeforeFirstOf(s, seps) ==
  LET hits == { i \in 1..Len(s) : s[i] \in seps }
  IN  IF hits = {} THEN s
      ELSE SubSeq(s, 1, (CHOOSE i \in hits : \A j \in hits : i <= j) - 1)

(***************************************************************************)
(* new URL(input).hostname, after the WHATWG URL Standard, for inputs made *)
(* of printable ASCII other than "%", "[" and "]" (no percent-decoding, no *)
(* IPv6 literal, no IDNA mapping beyond ASCII lower-casing), and with no   *)
(* base URL.  The result is [ok |-> FALSE] when the constructor throws a   *)
(* TypeError, and [ok |-> TRUE, hostname |-> h] otherwise.                 *)
(***************************************************************************)

UrlFailure == [ok |-> FALSE, hostname |-> <<>>]

UrlSuccess(h) == [ok |-> TRUE, hostname |-> h]

\* the special schemes whose host is parsed as a domain
SpecialSchemes ==
  { <<"h","t","t","p">>, <<"h","t","t","p","s">>, <<"w","s">>,
    <<"w","s","s">>, <<"f","t","p">>, <<"f","i","l","e">> }

\* forbidden host code points (the printable ones, and the white space)
ForbiddenHostChars ==
  WhiteSpace \cup {"#", "/", ":", "<", ">", "?", "@", "[", "\\", "]", "^", "|"}

\* forbidden domain code points: the forbidden host code points and "%"
ForbiddenDomainChars == ForbiddenHostChars \cup {"%"}

\* the first index at or after i whose character is in stops, else Len(s) + 1
RECURSIVE FirstIn(_, _, _)
FirstIn(s, i, stops) ==
  IF i > Len(s) THEN Len(s) + 1
  ELSE IF s[i] \in stops THEN i
  ELSE FirstIn(s, i + 1, stops)

\* the first index at or after i whose character is not in skip, else Len(s) + 1
RECURSIVE FirstNotIn(_, _, _)
FirstNotIn(s, i, skip) ==
  IF i > Len(s) THEN Len(s) + 1
  ELSE IF s[i] \notin skip THEN i
  ELSE FirstNotIn(s, i + 1, skip)

\* strictly split s on the character c
RECURSIVE SplitOnChar(_, _)
SplitOnChar(s, c) ==
  LET k == FirstIn(s, 1, {c})
  IN  IF k > Len(s) THEN <<s>>
      ELSE <<SubSeq(s, 1, k - 1)>> \o SplitOnChar(SubSeq(s, k + 1, Len(s)), c)

\* the value of a digit in a radix, or -1
DigitValue(c, radix) ==
  LET l == LowerChar(c)
      v == IF IsDigit(l)
             THEN (CHOOSE i \in DOMAIN DigitChars : DigitChars[i] = l) - 1
           ELSE IF l \in {"a", "b", "c", "d", "e", "f"}
             THEN 9 + (CHOOSE i \in DOMAIN LowerLetters : LowerLetters[i] = l)
           ELSE -1
  IN  IF v < radix THEN v ELSE -1

\* octs * radix + carry, on a little-endian sequence of octets of any length
RECURSIVE MulAdd(_, _, _, _)
MulAdd(octs, i, radix, carry) ==
  IF i > Len(octs)
    THEN IF carry = 0 THEN octs ELSE Append(octs, carry)
    ELSE LET v == octs[i] * radix + carry
         IN  MulAdd([octs EXCEPT ![i] = v % 256], i + 1, radix, v \div 256)

RECURSIVE DigitsToOctets(_, _, _, _)
DigitsToOctets(s, i, radix, octs) ==
  IF i > Len(s) THEN octs
  ELSE DigitsToOctets(s, i + 1, radix, MulAdd(octs, 1, radix, DigitValue(s[i], radix)))

\* the IPv4 number parser: [ok, octets], the number as little-endian octets
Ipv4Number(part) ==
  LET hex    == Len(part) >= 2 /\ part[1] = "0" /\ part[2] \in {"x", "X"}
      oct    == ~hex /\ Len(part) >= 2 /\ part[1] = "0"
      radix  == IF hex THEN 16 ELSE IF oct THEN 8 ELSE 10
      digits == IF hex THEN SubSeq(part, 3, Len(part))
                ELSE IF oct THEN SubSeq(part, 2, Len(part))
                ELSE part
  IN  IF part = <<>> THEN [ok |-> FALSE, octets |-> <<>>]
      ELSE IF \E i \in 1..Len(digits) : DigitValue(digits[i], radix) = -1
        THEN [ok |-> FALSE, octets |-> <<>>]
      ELSE [ok |-> TRUE, octets |-> DigitsToOctets(digits, 1, radix, <<>>)]

\* a list of host parts without its last part when that part is empty
DropEmptyLast(parts) ==
  IF parts[Len(parts)] = <<>> /\ Len(parts) > 1
    THEN SubSeq(parts, 1, Len(parts) - 1)
    ELSE parts

\* the parts of a host split on ".", without an empty last part
HostParts(host) == DropEmptyLast(SplitOnChar(host, "."))

\* whether the last of the parts is all digits or parses as an IPv4 number
LastIsNumber(parts) ==
  LET last == parts[Len(parts)]
  IN  \/ last # <<>> /\ \A i \in 1..Len(last) : IsDigit(last[i])
      \/ Ipv4Number(last).ok

\* the ends-in-a-number checker (of the empty host the only part is empty,
\* and is no number)
EndsInNumber(host) == LastIsNumber(HostParts(host))

\* octet k (1 is the lowest) of a little-endian sequence of octets
OctetAt(octs, k) == IF k <= Len(octs) THEN octs[k] ELSE 0

\* the decimal digits of n in 0..255
DecimalOf(n) ==
  IF n >= 100 THEN <<DigitChars[(n \div 100) + 1], DigitChars[((n \div 10) % 10) + 1],
                     DigitChars[(n % 10) + 1]>>
  ELSE IF n >= 10 THEN <<DigitChars[(n \div 10) + 1], DigitChars[(n % 10) + 1]>>
  ELSE <<DigitChars[n + 1]>>

\* the IPv4 parser on the parsed parts, followed by the IPv4 serializer: every
\* part but the last is below 256, the last fills the remaining octets
Ipv4FromNumbers(nums) ==
  LET n == Len(nums)
      \* address octet j (1 is the first printed)
      addr(j) == IF j < n THEN OctetAt(nums[j].octets, 1)
                 ELSE OctetAt(nums[n].octets, 5 - j)
  IN  IF n > 4 THEN UrlFailure
      ELSE IF \E i \in 1..n : ~nums[i].ok THEN UrlFailure
      ELSE IF \E i \in 1..(n - 1) : Len(nums[i].octets) > 1 THEN UrlFailure
      ELSE IF Len(nums[n].octets) > 5 - n THEN UrlFailure
      ELSE UrlSuccess(DecimalOf(addr(1)) \o <<".">> \o DecimalOf(addr(2)) \o <<".">>
                      \o DecimalOf(addr(3)) \o <<".">> \o DecimalOf(addr(4)))

Ipv4Numbers(parts) == [i \in 1..Len(parts) |-> Ipv4Number(parts[i])]

Ipv4Host(host) == Ipv4FromNumbers(Ipv4Numbers(HostParts(host)))

\* the opaque-host parser: the host is checked and kept as written
OpaqueHost(buffer) ==
  IF \E i \in 1..Len(buffer) : buffer[i] \in ForbiddenHostChars
    THEN UrlFailure
    ELSE UrlSuccess(buffer)

\* the host parser on a lower-cased domain: it is checked, and read as an IPv4
\* address when it ends in a number
DomainHost(ascii) ==
  IF ascii = <<>> THEN UrlFailure
  ELSE IF \E i \in 1..Len(ascii) : ascii[i] \in ForbiddenDomainChars THEN UrlFailure
  ELSE IF EndsInNumber(ascii) THEN Ipv4Host(ascii)
  ELSE UrlSuccess(ascii)

\* the host parser
HostParse(buffer, isOpaque) ==
  IF isOpaque THEN OpaqueHost(buffer) ELSE DomainHost(ToLowerCase(buffer))

\* the port state: ASCII digits only, and at most 65535
PortOk(port) ==
  /\ \A i \in 1..Len(port) : IsDigit(port[i])
  /\ Len(DigitsToOctets(SubSeq(port, FirstNotIn(port, 1, {"0"}), Len(port)), 1, 10, <<>>)) <= 2

\* the host state and the port state on what follows the credentials
HostAndPort(hostport, sawAt, special) ==
  LET colon   == FirstIn(hostport, 1, {":"})
      hostBuf == SubSeq(hostport, 1, colon - 1)
      hasPort == colon <= Len(hostport)
      port    == SubSeq(hostport, colon + 1, Len(hostport))
  IN  IF sawAt /\ hostport = <<>> THEN UrlFailure
      ELSE IF hasPort /\ hostBuf = <<>> THEN UrlFailure
      ELSE IF ~hasPort /\ hostBuf = <<>> /\ special THEN UrlFailure
      ELSE IF hasPort /\ ~PortOk(port) THEN UrlFailure
      ELSE HostParse(hostBuf, ~special)

\* what follows the last "@" of an authority
AfterCredentials(authority) ==
  LET ats == { i \in 1..Len(authority) : authority[i] = "@" }
  IN  IF ats = {} THEN authority
      ELSE SubSeq(authority, (CHOOSE i \in ats : \A j \in ats : j <= i) + 1, Len(authority))

\* the authority state, on the characters of the authority
AuthorityHost(authority, special) ==
  HostAndPort(AfterCredentials(authority), "@" \in Range(authority), special)

\* the characters of a scheme after its first letter
IsSchemeChar(c) == IsAlpha(c) \/ IsDigit(c) \/ c \in {"+", "-", "."}

\* s up to its first character in stops
UpTo(s, stops) == SubSeq(s, 1, FirstIn(s, 1, stops) - 1)

\* the file host state on the buffer between "//" and the path: no
\* credentials, no port; a drive letter is a path
FileHostOf(buffer) ==
  IF buffer = <<>> THEN UrlSuccess(<<>>)
  ELSE IF Len(buffer) = 2 /\ IsAlpha(buffer[1]) /\ buffer[2] \in {":", "|"}
    THEN UrlSuccess(<<>>)
  ELSE IF ToLowerCase(buffer) = <<"l","o","c","a","l","h","o","s","t">>
    THEN UrlSuccess(<<>>)
  ELSE HostParse(buffer, FALSE)

\* the file state and the file slash state
FileHost(rest) ==
  IF Len(rest) >= 2 /\ rest[1] \in {"/", "\\"} /\ rest[2] \in {"/", "\\"}
    THEN FileHostOf(UpTo(SubSeq(rest, 3, Len(rest)), {"/", "\\", "?", "#"}))
    ELSE UrlSuccess(<<>>)

\* the characters of the authority: a special scheme skips every leading slash
\* and backslash, and a backslash ends its authority
Authority(rest, special) ==
  IF special
    THEN UpTo(SubSeq(rest, FirstNotIn(rest, 1, {"/", "\\"}), Len(rest)), {"/", "\\", "?", "#"})
    ELSE UpTo(SubSeq(rest, 3, Len(rest)), {"/", "?", "#"})

\* the states after the scheme; a scheme that is not special has a host only
\* when "//" follows it
AfterScheme(scheme, rest) ==
  IF scheme = <<"f","i","l","e">> THEN FileHost(rest)
  ELSE IF scheme \notin SpecialSchemes /\ ~StartsWith(rest, <<"/","/">>)
    THEN UrlSuccess(<<>>)
  ELSE AuthorityHost(Authority(rest, scheme \in SpecialSchemes), scheme \in SpecialSchemes)

\* the scheme start state and the scheme state; k is the first index whose
\* character cannot be part of a scheme.  With no base URL, an input without a
\* scheme is a failure
SchemeState(stripped, k) ==
  IF stripped = <<>> \/ ~IsAlpha(stripped[1]) THEN UrlFailure
  ELSE IF k > Len(stripped) \/ stripped[k] # ":" THEN UrlFailure
  ELSE AfterScheme(ToLowerCase(SubSeq(stripped, 1, k - 1)),
                   SubSeq(stripped, k + 1, Len(stripped)))

\* the input without leading and trailing C0 controls and spaces, and without
\* tabs and newlines
StripUrlInput(input) == SelectSeq(Trim(input), LAMBDA c : c \notin {"\t", "\n", "\r"})

UrlParse(stripped) ==
  SchemeState(stripped, FirstNotIn(stripped, 1, { c \in Range(stripped) : IsSchemeChar(c) }))

UrlHostname(input) == UrlParse(StripUrlInput(input))

(***************************************************************************)
(* The pure functions of page.tsx                                          *)
(***************************************************************************)

DomainPrefix == <<"d","o","m","a","i","n",":">>

HttpPrefix == <<"h","t","t","p",":","/","/">>

HttpsPrefix == <<"h","t","t","p","s",":","/","/">>

WwwPrefix == <<"w","w","w",".">>

\* s.replace(/^domain:/i, "") and s.replace(/^www\./i, "")
StripPrefixIgnoreCase(s, p) ==
  IF StartsWith(ToLowerCase(s), p) THEN SubSeq(s, Len(p) + 1, Len(s)) ELSE s

\* looksLikeUrl without toLowerCase
looksLikeUrlCaseSensitive(value) ==
  LET target == Trim(value)
  IN  IF target = <<>> THEN FALSE
      ELSE IF StartsWith(target, DomainPrefix) THEN TRUE
      ELSE IF StartsWith(target, HttpPrefix) \/ StartsWith(target, HttpsPrefix) THEN TRUE
      ELSE IF StartsWith(target, WwwPrefix) THEN TRUE
      ELSE Includes(target, <<".">>)

looksLikeUrl(value) ==
  LET target == ToLowerCase(Trim(value))
  IN  IF target = <<>> THEN FALSE
      ELSE IF StartsWith(target, DomainPrefix) THEN TRUE
      ELSE IF StartsWith(target, HttpPrefix) \/ StartsWith(target, HttpsPrefix) THEN TRUE
      ELSE IF StartsWith(target, WwwPrefix) THEN TRUE
      ELSE Includes(target, <<".">>)

\* withoutPrefix.includes("://") ? withoutPrefix : `https://${withoutPrefix}`
ensureProtocol(withoutPrefix) ==
  IF Includes(withoutPrefix, <<":","/","/">>)
    THEN withoutPrefix
    ELSE HttpsPrefix \o withoutPrefix

\* the hostname the try/catch leaves: url.hostname, or after the TypeError of
\* new URL the part of withoutPrefix before its first "/", "?" or "#"
TryHostname(url, withoutPrefix) ==
  IF url.ok THEN url.hostname
  ELSE BeforeFirstOf(withoutPrefix, {"/", "?", "#"})

ExtractHostname(withoutPrefix) ==
  TryHostname(UrlHostname(ensureProtocol(withoutPrefix)), withoutPrefix)

\* the end of toDisavowDomain, on hostname.replace(/^www\./i, "").toLowerCase()
DomainOf(normalized) ==
  IF normalized = <<>> THEN Null ELSE DomainPrefix \o normalized

\* the outcome of a call that threw
Raised == <<"raised">>

\* toDisavowDomain without its try/catch: the TypeError of new URL leaves it
toDisavowDomainUncaught(value) ==
  LET trimmed == Trim(value)
      withoutPrefix == StripPrefixIgnoreCase(trimmed, DomainPrefix)
  IN  IF value = <<>> THEN Null
      ELSE IF trimmed = <<>> THEN Null
      ELSE IF withoutPrefix = <<>> THEN Null
      ELSE IF ~UrlHostname(ensureProtocol(withoutPrefix)).ok THEN Raised
      ELSE DomainOf(ToLowerCase(StripPrefixIgnoreCase(ExtractHostname(withoutPrefix),
                                                      WwwPrefix)))

toDisavowDomain(value) ==
  LET trimmed == Trim(value)
      withoutPrefix == StripPrefixIgnoreCase(trimmed, DomainPrefix)
  IN  IF value = <<>> THEN Null
      ELSE IF trimmed = <<>> THEN Null
      ELSE IF withoutPrefix = <<>> THEN Null
      ELSE DomainOf(ToLowerCase(StripPrefixIgnoreCase(ExtractHostname(withoutPrefix),
                                                      WwwPrefix)))

\* ParseTokens without .filter(Boolean)
ParseTokensUnfiltered(raw) == MapTrim(SplitOnDelimiters(ReplaceCR(raw)))

\* the tokens of parseDomains
ParseTokens(raw) == FilterBoolean(MapTrim(SplitOnDelimiters(ReplaceCR(raw))))

\* the callback parseDomains maps over its tokens
ProcessToken(token, skipNonUrl) ==
  IF skipNonUrl /\ ~looksLikeUrl(token) THEN Null ELSE toDisavowDomain(token)

\* tokens.map(...).filter((item) => !!item)
Processed(tokens, skipNonUrl) ==
  SelectSeq([i \in 1..Len(tokens) |-> ProcessToken(tokens[i], skipNonUrl)], Truthy)

\* Cleaned with the dedupe flag ignored
CleanedKeepsRepeats(processed, dedupe) == processed

\* dedupe ? Array.from(new Set(processed)) : processed
Cleaned(processed, dedupe) == IF dedupe THEN ArrayFromSet(processed) ELSE processed

\* the result of parseDomains on its tokens
ParseResult(tokens, dedupe, skipNonUrl) ==
  [cleaned |-> Cleaned(Processed(tokens, skipNonUrl), dedupe), total |-> Len(tokens)]

parseDomains(raw, dedupe, skipNonUrl) == ParseResult(ParseTokens(raw), dedupe, skipNonUrl)

\* the tokens of normalizeGreenEntries
GreenTokens(text) == FilterBoolean(MapTrim(SplitOnDelimiters(ReplaceCR(text))))

\* GreenValues with the classifier applied to every line first
GreenValuesClassified(lines) ==
  SelectSeq([i \in 1..Len(lines) |-> ProcessToken(lines[i], TRUE)], Truthy)

\* lines.map((value) => toDisavowDomain(value)).filter((item) => !!item)
GreenValues(lines) == SelectSeq([i \in 1..Len(lines) |-> toDisavowDomain(lines[i])], Truthy)

normalizeGreenEntries(text) == ArrayFromSet(GreenValues(GreenTokens(text)))

(***************************************************************************)
(* The state of the Home component                                         *)
(***************************************************************************)

VARIABLES
  rawInput,       \* the text of the input box
  domains,        \* the list shown in the preview
  stats,          \* [total, output, greenRemoved]
  status,         \* the status line: [kind, a, b], the message and its numbers
  dedupe,         \* the "remove duplicates" flag
  skipNonUrl,     \* the "skip non-URL lines" flag
  utf8Check,      \* the "require UTF-8" flag
  greenlist,      \* the canonical domains of the greenlist, as a list
  greenlistInput, \* the text of the greenlist paste box
  lastProcessed,  \* the text of the last Format, or Null
  pending         \* the file reads in flight, each with what its handler closed over

uiVars == <<rawInput, domains, stats, status, dedupe, skipNonUrl, utf8Check,
            greenlist, greenlistInput, lastProcessed, pending>>

ZeroStats == [total |-> 0, output |-> 0, greenRemoved |-> 0]

Status(kind, a, b) == [kind |-> kind, a |-> a, b |-> b]

NoStatus == Status("", 0, 0)

\* const greenlistSet = useMemo(() => new Set(greenlist), [greenlist])
greenlistSet == Range(greenlist)

\* FilterExcluded without the exclusion test
FilterExcludedNothing(cleaned, filterSet) == cleaned

\* cleaned.filter((entry) => !filterSet.has(entry))
FilterExcluded(cleaned, filterSet) == SelectSeq(cleaned, LAMBDA entry : entry \notin filterSet)

\* the status runProcessing sets after a run; customStatus is the kind of the
\* caller's message, "" when the caller gives none
RunStatus(total, output, customStatus) ==
  IF customStatus # "" THEN Status(customStatus, total, output)
  ELSE IF total = 0 THEN Status("nothing", 0, 0)
  ELSE Status("trimmed", total, output)

\* RunResult counting every token that is not shown as removed by the greenlist
RunResultMiscounted(cleaned, total, filtered, customStatus) ==
  [domains |-> filtered,
   stats   |-> [total |-> total, output |-> Len(filtered),
                greenRemoved |-> total - Len(filtered)],
   status  |-> RunStatus(total, Len(filtered), customStatus)]

\* what runProcessing hands to setDomains, setStats and setStatus after a run
RunResult(cleaned, total, filtered, customStatus) ==
  [domains |-> filtered,
   stats   |-> [total |-> total, output |-> Len(filtered),
                greenRemoved |-> Len(cleaned) - Len(filtered)],
   status  |-> RunStatus(total, Len(filtered), customStatus)]

\* runProcessing after parseDomains
RunParsed(parsed, filterSet, customStatus) ==
  RunResult(parsed.cleaned, parsed.total, FilterExcluded(parsed.cleaned, filterSet),
            customStatus)

runProcessing(source, dedupeFlag, skipFlag, filterSet, customStatus) ==
  IF Trim(source) = <<>>
    THEN [domains |-> <<>>, stats |-> ZeroStats, status |-> Status("nothing", 0, 0)]
    ELSE RunParsed(parseDomains(source, dedupeFlag, skipFlag), filterSet, customStatus)

(***************************************************************************)
(* The variables of the function-level checks: an input drawn by the       *)
(* initial state and the values the functions return on it.                *)
(***************************************************************************)

VARIABLES
  stage,          \* "ui", or how far the functions have been applied
  token,          \* a token handed to toDisavowDomain
  canonical,      \* toDisavowDomain(token)
  recanonical,    \* toDisavowDomain of each token of canonical
  text,           \* a raw text handed to the tokenizers
  tokens,         \* the tokens parseDomains makes of text
  greenLines      \* the tokens normalizeGreenEntries makes of text

fnVars == <<stage, token, canonical, recanonical, text, tokens, greenLines>>

vars == <<uiVars, fnVars>>

(***************************************************************************)
(* Bounds and the inputs drawn within them                                 *)
(***************************************************************************)

\* the longest host body of a generated token
MaxBody == 2

\* the longest raw text handed to the tokenizers
MaxText == 4

\* the most tokens of a generated input text
MaxTokens == 3

\* the most tokens of a generated greenlist text
MaxGreen == 2

\* the most file reads in flight
MaxPending == 1

\* the longest blank text typed into the input box
MaxBlank == 2

\* the longest input text a file upload may grow the input box to
MaxRawInput == 3

\* all strings over chars of length at most n
StringsUpTo(chars, n) == UNION { [1..k -> chars] : k \in 0..n }

\* all lists over items of length at most n
ListsUpTo(items, n) == UNION { [1..k -> items] : k \in 0..n }

\* Array.prototype.join
RECURSIVE Join(_, _)
Join(list, sep) ==
  IF list = <<>> THEN <<>>
  ELSE IF Len(list) = 1 THEN list[1]
  ELSE list[1] \o sep \o Join(Tail(list), sep)

UpperChar(c) ==
  IF c \in Range(LowerLetters)
    THEN UpperLetters[CHOOSE i \in DOMAIN LowerLetters : LowerLetters[i] = c]
    ELSE c

ToUpperCase(s) == [i \in 1..Len(s) |-> UpperChar(s[i])]

\* tokens: "domain:" prefixes, a scheme, "www." labels, a host body, a tail,
\* as written or in upper case
TokenPrefixes ==
  { <<>>, DomainPrefix, ToUpperCase(DomainPrefix), DomainPrefix \o DomainPrefix }

TokenSchemes == { <<>>, HttpPrefix, ToUpperCase(HttpsPrefix), <<"g",":","/","/">> }

TokenWwws == { <<>>, WwwPrefix, ToUpperCase(WwwPrefix), WwwPrefix \o WwwPrefix }

BodyChars == {"a", "B", ".", " ", ":"}

TokenBodies == StringsUpTo(BodyChars, MaxBody)

TokenTails == { <<>>, <<"/","p">>, <<"?","q">>, <<"#","f">>, <<":","8">>, <<".","8">> }

Tokens ==
  { p \o s \o w \o b \o t : p \in TokenPrefixes, s \in TokenSchemes,
    w \in TokenWwws, b \in TokenBodies, t \in TokenTails }

\* the tokens a tokenizer can hand on: trimmed and not empty
TrimmedTokens == { t \in Tokens : t # <<>> /\ Trim(t) = t }

\* raw texts of the tokenizers: every string over a letter, the white space
\* and the delimiters
TextChars == {"a", " ", "\n", "\r", ",", ";", "\t"}

RawTexts == StringsUpTo(TextChars, MaxText)

\* tokens for the classifier: the prefixes it knows in both cases, once and
\* twice, before a short body with or without a dot
ClassifierBodies == StringsUpTo({"a", ".", " "}, MaxBody)

ClassifierTokens ==
  { p \o s \o w \o b : p \in TokenPrefixes, s \in TokenSchemes,
    w \in TokenWwws, b \in ClassifierBodies }

\* the tokens of generated multi-token texts: two spellings of one domain, a
\* phrase that is no URL and that new URL rejects, and a token the
\* canonicalizer rejects
PoolTokens ==
  { <<"a",".","b">>, <<"A",".","b","/","p">>, <<"x"," ","y">>, DomainPrefix }

PoolTexts == { Join(l, <<"\n">>) : l \in ListsUpTo(PoolTokens, MaxTokens) }

PoolGreenlists ==
  { normalizeGreenEntries(Join(l, <<",">>)) : l \in ListsUpTo(PoolTokens, MaxGreen) }

(***************************************************************************)
(* The handlers of the Home component.  A handler runs to completion, and  *)
(* reads the state of the render it was created in; a file upload awaits   *)
(* the file, so its completion is a second step that reads what the        *)
(* handler closed over when it started.                                    *)
(***************************************************************************)

UiInit ==
  /\ rawInput = <<>>
  /\ domains = <<>>
  /\ stats = ZeroStats
  /\ status = NoStatus
  /\ dedupe = TRUE
  /\ skipNonUrl = TRUE
  /\ utf8Check = FALSE
  /\ greenlist = <<>>
  /\ greenlistInput = <<>>
  /\ lastProcessed = Null
  /\ pending = {}

FnIdle ==
  /\ stage = "ui"
  /\ token = <<>>
  /\ canonical = Null
  /\ recanonical = <<>>
  /\ text = <<>>
  /\ tokens = <<>>
  /\ greenLines = <<>>

\* the three setters runProcessing calls
Show(result) ==
  /\ domains' = result.domains
  /\ stats' = result.stats
  /\ status' = result.status

\* handleProcess without its branch for a blank input
handleProcessKeepsLast ==
  /\ stage = "ui"
  /\ Show(runProcessing(rawInput, dedupe, skipNonUrl, greenlistSet, ""))
  /\ lastProcessed' = rawInput
  /\ UNCHANGED <<rawInput, dedupe, skipNonUrl, utf8Check, greenlist, greenlistInput,
                 pending, fnVars>>

handleProcess ==
  /\ stage = "ui"
  /\ IF Trim(rawInput) = <<>>
       THEN /\ Show(runProcessing(<<>>, dedupe, skipNonUrl, greenlistSet, ""))
            /\ lastProcessed' = Null
       ELSE /\ Show(runProcessing(rawInput, dedupe, skipNonUrl, greenlistSet, ""))
            /\ lastProcessed' = rawInput
  /\ UNCHANGED <<rawInput, dedupe, skipNonUrl, utf8Check, greenlist, greenlistInput,
                 pending, fnVars>>

\* handleToggleDedupe running the pipeline with the flag as it was
handleToggleDedupeStale ==
  LET next == ~dedupe
  IN  /\ stage = "ui"
      /\ dedupe' = next
      /\ IF lastProcessed # Null
           THEN Show(runProcessing(lastProcessed, dedupe, skipNonUrl, greenlistSet,
                                   IF next THEN "dedupe_on" ELSE "dedupe_off"))
           ELSE UNCHANGED <<domains, stats, status>>
      /\ UNCHANGED <<rawInput, skipNonUrl, utf8Check, greenlist, greenlistInput,
                     lastProcessed, pending, fnVars>>

handleToggleDedupe ==
  LET next == ~dedupe
  IN  /\ stage = "ui"
      /\ dedupe' = next
      /\ IF lastProcessed # Null
           THEN Show(runProcessing(lastProcessed, next, skipNonUrl, greenlistSet,
                                   IF next THEN "dedupe_on" ELSE "dedupe_off"))
           ELSE UNCHANGED <<domains, stats, status>>
      /\ UNCHANGED <<rawInput, skipNonUrl, utf8Check, greenlist, greenlistInput,
                     lastProcessed, pending, fnVars>>

handleToggleSkip ==
  LET next == ~skipNonUrl
  IN  /\ stage = "ui"
      /\ skipNonUrl' = next
      /\ IF lastProcessed # Null
           THEN Show(runProcessing(lastProcessed, dedupe, next, greenlistSet,
                                   IF next THEN "skip_on" ELSE "skip_off"))
           ELSE UNCHANGED <<domains, stats, status>>
      /\ UNCHANGED <<rawInput, dedupe, utf8Check, greenlist, greenlistInput,
                     lastProcessed, pending, fnVars>>

\* what applyGreenlistEntries closes over
Closure(d, s, l) == [dedupe |-> d, skipNonUrl |-> s, lastProcessed |-> l]

CurrentClosure == Closure(dedupe, skipNonUrl, lastProcessed)

\* applyGreenlistEntries adding the entries to the greenlist it finds
applyGreenlistEntriesMerging(entries, closed) ==
  /\ greenlist' = greenlist \o entries
  /\ IF closed.lastProcessed # Null
       THEN Show(runProcessing(closed.lastProcessed, closed.dedupe, closed.skipNonUrl,
                               Range(entries),
                               IF Len(entries) # 0 THEN "greenlist_applied"
                                                   ELSE "greenlist_cleared"))
       ELSE /\ status' = IF Len(entries) # 0
                           THEN Status("greenlist_loaded", Len(entries), 0)
                           ELSE Status("greenlist_empty", 0, 0)
            /\ UNCHANGED <<domains, stats>>

\* applyGreenlistEntries, created in a render with the state `closed`
applyGreenlistEntries(entries, closed) ==
  /\ greenlist' = entries
  /\ IF closed.lastProcessed # Null
       THEN Show(runProcessing(closed.lastProcessed, closed.dedupe, closed.skipNonUrl,
                               Range(entries),
                               IF Len(entries) # 0 THEN "greenlist_applied"
                                                   ELSE "greenlist_cleared"))
       ELSE /\ status' = IF Len(entries) # 0
                           THEN Status("greenlist_loaded", Len(entries), 0)
                           ELSE Status("greenlist_empty", 0, 0)
            /\ UNCHANGED <<domains, stats>>

\* the Clear button is rendered only while greenlist.length > 0
handleClearGreenlist ==
  /\ stage = "ui"
  /\ Len(greenlist) > 0
  /\ greenlistInput' = <<>>
  /\ applyGreenlistEntries(<<>>, CurrentClosure)
  /\ UNCHANGED <<rawInput, dedupe, skipNonUrl, utf8Check, lastProcessed, pending, fnVars>>

\* the Apply button is disabled unless canApplyGreenlistPaste
canApplyGreenlistPaste == Len(Trim(greenlistInput)) > 0

handleApplyGreenlistPaste ==
  /\ stage = "ui"
  /\ canApplyGreenlistPaste
  /\ IF Trim(greenlistInput) = <<>>
       THEN /\ status' = Status("paste_first", 0, 0)
            /\ UNCHANGED <<domains, stats, greenlist, greenlistInput>>
       ELSE /\ applyGreenlistEntries(normalizeGreenEntries(greenlistInput), CurrentClosure)
            /\ greenlistInput' = <<>>
  /\ UNCHANGED <<rawInput, dedupe, skipNonUrl, utf8Check, lastProcessed, pending, fnVars>>

\* the texts a user types or pastes into the input box
InputTexts ==
  { <<>>, <<"a",".","b","\n","A",".","b","\n","x">> }

\* the texts a user pastes into the greenlist box
GreenTexts == { <<>>, <<"a",".","b",";","x">>, <<"A",".","b">> }

\* the files a user uploads: their text, and whether their bytes are valid UTF-8
\* (file.text() of invalid bytes holds replacement characters and never throws)
Files ==
  { [valid |-> TRUE,  text |-> <<"x">>],
    [valid |-> FALSE, text |-> <<"a",".","b">>] }

\* onChange of the input box
setRawInput(value) ==
  /\ stage = "ui"
  /\ rawInput' = value
  /\ UNCHANGED <<domains, stats, status, dedupe, skipNonUrl, utf8Check, greenlist,
                 greenlistInput, lastProcessed, pending, fnVars>>

\* onChange of the greenlist paste box, and its Clear text button
setGreenlistInput(value) ==
  /\ stage = "ui"
  /\ greenlistInput' = value
  /\ UNCHANGED <<rawInput, domains, stats, status, dedupe, skipNonUrl, utf8Check,
                 greenlist, lastProcessed, pending, fnVars>>

\* onClick of the UTF-8 toggle
toggleUtf8Check ==
  /\ stage = "ui"
  /\ utf8Check' = ~utf8Check
  /\ UNCHANGED <<rawInput, domains, stats, status, dedupe, skipNonUrl, greenlist,
                 greenlistInput, lastProcessed, pending, fnVars>>

\* onClick of the Reset button; a file read in flight is not cancelled
reset ==
  /\ stage = "ui"
  /\ rawInput' = <<>>
  /\ domains' = <<>>
  /\ stats' = ZeroStats
  /\ dedupe' = TRUE
  /\ skipNonUrl' = TRUE
  /\ utf8Check' = FALSE
  /\ greenlist' = <<>>
  /\ greenlistInput' = <<>>
  /\ lastProcessed' = Null
  /\ status' = NoStatus
  /\ UNCHANGED <<pending, fnVars>>

\* a file read in flight: which handler awaits it, and what that handler closed over
Read(kind, file, utf8, closed) ==
  [kind |-> kind, file |-> file, utf8Check |-> utf8, closed |-> closed]

NoClosure == Closure(FALSE, FALSE, Null)

\* the decode of a file throws when utf8Check was set and the bytes are invalid
DecodeThrows(read) == read.utf8Check /\ ~read.file.valid

\* handleFileUpload up to its await
handleFileUploadStart(file) ==
  /\ stage = "ui"
  /\ Cardinality(pending) < MaxPending
  /\ Len(Join(FilterBoolean(<<rawInput, file.text>>), <<"\n">>)) <= MaxRawInput
  /\ pending' = pending \cup {Read("input", file, utf8Check, NoClosure)}
  /\ UNCHANGED <<rawInput, domains, stats, status, dedupe, skipNonUrl, utf8Check,
                 greenlist, greenlistInput, lastProcessed, fnVars>>

\* handleFileUpload after its await, taking the text of a file whose decode throws
handleFileUploadDoneUncaught(read) ==
  /\ stage = "ui"
  /\ read \in pending
  /\ read.kind = "input"
  /\ pending' = pending \ {read}
  /\ rawInput' = Join(FilterBoolean(<<rawInput, read.file.text>>), <<"\n">>)
  /\ status' = Status(IF read.utf8Check THEN "utf8_verified" ELSE "loaded", 0, 0)
  /\ UNCHANGED <<domains, stats, dedupe, skipNonUrl, utf8Check, greenlist,
                 greenlistInput, lastProcessed, fnVars>>

\* handleFileUpload after its await
handleFileUploadDone(read) ==
  /\ stage = "ui"
  /\ read \in pending
  /\ read.kind = "input"
  /\ pending' = pending \ {read}
  /\ IF DecodeThrows(read)
       THEN /\ status' = Status("utf8_failed", 0, 0)
            /\ UNCHANGED rawInput
       ELSE /\ rawInput' = Join(FilterBoolean(<<rawInput, read.file.text>>), <<"\n">>)
            /\ status' = Status(IF read.utf8Check THEN "utf8_verified" ELSE "loaded", 0, 0)
  /\ UNCHANGED <<domains, stats, dedupe, skipNonUrl, utf8Check, greenlist,
                 greenlistInput, lastProcessed, fnVars>>

\* handleGreenlistUpload up to its await
handleGreenlistUploadStart(file) ==
  /\ stage = "ui"
  /\ Cardinality(pending) < MaxPending
  /\ pending' = pending \cup {Read("greenlist", file, utf8Check, CurrentClosure)}
  /\ UNCHANGED <<rawInput, domains, stats, status, dedupe, skipNonUrl, utf8Check,
                 greenlist, greenlistInput, lastProcessed, fnVars>>

\* handleGreenlistUpload after its await
handleGreenlistUploadDone(read) ==
  /\ stage = "ui"
  /\ read \in pending
  /\ read.kind = "greenlist"
  /\ pending' = pending \ {read}
  /\ IF DecodeThrows(read)
       THEN /\ status' = Status("read_failed", 0, 0)
            /\ UNCHANGED <<domains, stats, greenlist>>
       ELSE applyGreenlistEntries(normalizeGreenEntries(read.file.text), read.closed)
  /\ UNCHANGED <<rawInput, dedupe, skipNonUrl, utf8Check, greenlistInput,
                 lastProcessed, fnVars>>

Init == UiInit /\ FnIdle

\* the handlers that complete in the event that calls them
EditHandlers ==
  \/ handleProcess
  \/ handleToggleDedupe
  \/ handleToggleSkip
  \/ handleClearGreenlist
  \/ handleApplyGreenlistPaste
  \/ \E value \in InputTexts : setRawInput(value)
  \/ \E value \in GreenTexts : setGreenlistInput(value)
  \/ reset

\* the file uploads, each a start and a completion, and the toggle they read
UploadHandlers ==
  \/ toggleUtf8Check
  \/ \E file \in Files : handleFileUploadStart(file)
  \/ \E read \in pending : handleFileUploadDone(read)
  \/ \E file \in Files : handleGreenlistUploadStart(file)
  \/ \E read \in pending : handleGreenlistUploadDone(read)

Next == EditHandlers \/ UploadHandlers

Spec == Init /\ [][Next]_vars

\* a session without file uploads
NextEdit == EditHandlers

SpecEdit == Init /\ [][NextEdit]_vars

\* a session of file uploads around Format, the two toggles a greenlist upload
\* closes over, and Reset
NextUpload ==
  \/ UploadHandlers
  \/ handleProcess
  \/ handleToggleDedupe
  \/ handleToggleSkip
  \/ reset

SpecUpload == Init /\ [][NextUpload]_vars

\* a session of file uploads, with and without the strict decode, around Format
NextDecode == UploadHandlers \/ handleProcess

SpecDecode == Init /\ [][NextDecode]_vars

\* a session in which greenlist files are uploaded while the user edits the
\* input, presses Format, Reset and the two toggles
NextRace ==
  \/ handleProcess
  \/ handleToggleDedupe
  \/ handleToggleSkip
  \/ reset
  \/ \E value \in InputTexts : setRawInput(value)
  \/ \E file \in Files : handleGreenlistUploadStart(file)
  \/ \E read \in pending : handleGreenlistUploadDone(read)

SpecRace == Init /\ [][NextRace]_vars

\* the blank texts a user types: spaces, tabs and line ends
BlankTexts == StringsUpTo({" ", "\t", "\n"}, MaxBlank)

\* a session without file uploads in which the user also types blank texts
NextBlank ==
  \/ EditHandlers
  \/ \E value \in BlankTexts : setRawInput(value)

SpecBlank == Init /\ [][NextBlank]_vars

\* a session without greenlist uploads and without the strict decode: the
\* handlers that complete at once and the upload of a valid input file
NextInput ==
  \/ EditHandlers
  \/ \E file \in { f \in Files : f.valid } : handleFileUploadStart(file)
  \/ \E read \in pending : handleFileUploadDone(read)

SpecInput == Init /\ [][NextInput]_vars

(***************************************************************************)
(* The functions applied to drawn inputs                                   *)
(***************************************************************************)

\* toDisavowDomain on every drawn token, then on the tokens of its result
InitToken ==
  /\ UiInit
  /\ stage = "token"
  /\ token \in TrimmedTokens
  /\ canonical = Null
  /\ recanonical = <<>>
  /\ text = <<>>
  /\ tokens = <<>>
  /\ greenLines = <<>>

Canonicalize ==
  /\ stage = "token"
  /\ canonical' = toDisavowDomain(token)
  /\ stage' = "canonical"
  /\ UNCHANGED <<uiVars, token, recanonical, text, tokens, greenLines>>

Recanonicalize ==
  /\ stage = "canonical"
  /\ canonical # Null
  /\ recanonical' = [i \in 1..Len(ParseTokens(canonical)) |->
                       toDisavowDomain(ParseTokens(canonical)[i])]
  /\ stage' = "recanonical"
  /\ UNCHANGED <<uiVars, token, canonical, text, tokens, greenLines>>

NextToken == Canonicalize \/ Recanonicalize

SpecToken == InitToken /\ [][NextToken]_vars

\* the two tokenizers on every drawn raw text
InitTokenize ==
  /\ UiInit
  /\ stage = "text"
  /\ text \in RawTexts
  /\ tokens = <<>>
  /\ greenLines = <<>>
  /\ token = <<>>
  /\ canonical = Null
  /\ recanonical = <<>>

Tokenize ==
  /\ stage = "text"
  /\ tokens' = ParseTokens(text)
  /\ greenLines' = GreenTokens(text)
  /\ stage' = "tokens"
  /\ UNCHANGED <<uiVars, token, canonical, recanonical, text>>

SpecTokenize == InitTokenize /\ [][Tokenize]_vars

\* Format on every drawn input text, pair of flags and greenlist
InitProcess ==
  /\ FnIdle
  /\ \/ rawInput \in ClassifierTokens /\ greenlist = <<>>
     \/ rawInput \in PoolTexts /\ greenlist \in PoolGreenlists
  /\ dedupe \in BOOLEAN
  /\ skipNonUrl \in BOOLEAN
  /\ domains = <<>>
  /\ stats = ZeroStats
  /\ status = NoStatus
  /\ utf8Check = FALSE
  /\ greenlistInput = <<>>
  /\ lastProcessed = Null
  /\ pending = {}

SpecProcess == InitProcess /\ [][handleProcess]_vars

\* the tokens of generated greenlist texts: a domain, a bare word the
\* classifier rejects, another spelling of that word's canonical domain, and a
\* token the canonicalizer rejects
GreenPool == { <<"a",".","b">>, <<"x">>, <<"W","W","W",".","x">>, <<"/">> }

GreenPoolTexts == { Join(l, <<";">>) : l \in ListsUpTo(GreenPool, MaxGreen) } \ {<<>>}

\* input texts with the bare word and with domains
GreenInputs == { <<"x","\n","a",".","b">>, <<"x",".","y","\n","x">> }

\* a greenlist text in the paste box, kept in text, before an input text
InitGreen ==
  /\ stage = "ui"
  /\ text \in GreenPoolTexts
  /\ greenlistInput = text
  /\ rawInput \in GreenInputs
  /\ dedupe \in BOOLEAN
  /\ skipNonUrl \in BOOLEAN
  /\ domains = <<>>
  /\ stats = ZeroStats
  /\ status = NoStatus
  /\ utf8Check = FALSE
  /\ greenlist = <<>>
  /\ lastProcessed = Null
  /\ pending = {}
  /\ token = <<>>
  /\ canonical = Null
  /\ recanonical = <<>>
  /\ tokens = <<>>
  /\ greenLines = <<>>

NextGreen == handleApplyGreenlistPaste \/ handleProcess \/ handleToggleSkip

SpecGreen == InitGreen /\ [][NextGreen]_vars

(***************************************************************************)
(* Properties of the canonicalizer, under SpecToken                        *)
(***************************************************************************)

\* the token has been canonicalized
Canonicalized == stage \in {"canonical", "recanonical"}

\* the part of a canonical domain after "domain:"
HostOf(c) == SubSeq(c, Len(DomainPrefix) + 1, Len(c))

\* domain:[^/\s]+ with no upper-case letter and no leading "www."
MatchesPattern(c) ==
  /\ StartsWith(c, DomainPrefix)
  /\ Len(HostOf(c)) > 0
  /\ \A i \in 1..Len(HostOf(c)) : HostOf(c)[i] \notin WhiteSpace \cup {"/"}
  /\ \A i \in 1..Len(c) : ~IsUpper(c[i])
  /\ ~StartsWith(HostOf(c), WwwPrefix)

\* C2: toDisavowDomain of any token is null or a string "domain:" followed by
\* one or more characters that are neither "/" nor white space, with no
\* upper-case letter and a host that does not start with "www.".
CanonicalMatchesPattern ==
  Canonicalized => canonical = Null \/ MatchesPattern(canonical)

\* C3: the host of every canonical domain holds no ":" of a scheme, no "/",
\* "?" or "#" of a path, query or fragment, and does not end in a dot.
CanonicalHostIsBare ==
  (Canonicalized /\ canonical # Null) =>
    /\ \A i \in 1..Len(HostOf(canonical)) : HostOf(canonical)[i] \notin {":", "/", "?", "#"}
    /\ HostOf(canonical)[Len(HostOf(canonical))] # "."

\* C6: the canonical domain of a token, fed back through the tokenizer, is
\* the single token whose canonical domain is itself.
CanonicalizeIsIdempotent ==
  stage = "recanonical" => recanonical = <<canonical>>

(***************************************************************************)
(* Properties of a pipeline run, under SpecProcess: Format has run on the  *)
(* drawn input text with the drawn flags and greenlist.                    *)
(***************************************************************************)

\* Format has run
Ran == stage = "ui" /\ status.kind # ""

\* the tokens of the run
RunTokens == ParseTokens(rawInput)

\* the canonical domain the run makes of each token, or Null, token by token
RECURSIVE ValuesOf(_)
ValuesOf(toks) ==
  IF toks = <<>> THEN <<>>
  ELSE <<ProcessToken(Head(toks), skipNonUrl)>> \o ValuesOf(Tail(toks))

\* the tokens that survive classification and canonicalization
Survivors(vals) == { i \in 1..Len(vals) : vals[i] # Null }

\* the k-th smallest element of a set of indexes
Kth(S, k) == CHOOSE i \in S : Cardinality({ j \in S : j <= i }) = k

\* the list before the exclusion filter
RunCleaned == parseDomains(rawInput, dedupe, skipNonUrl).cleaned

HasRepeat(list) == \E i, j \in 1..Len(list) : i < j /\ list[i] = list[j]

\* C1: no element of the exclusion set appears in the list a pipeline run
\* stores in domains, whatever the text, the flags and the set.
ExcludedNeverShown ==
  Ran => \A i \in 1..Len(domains) : domains[i] \notin greenlistSet

\* a run whose exclusion set removed an entry and left another
ExcludedNeverShownWitness ==
  Ran /\ stats.greenRemoved > 0 /\ Len(domains) > 0

\* the dedupe property of a run whose tokens gave vals
DedupeHolds(vals) ==
  /\ dedupe => ~HasRepeat(domains)
  /\ ~dedupe =>
       Len(domains) = Cardinality(Survivors(vals))
                      - Cardinality({ i \in Survivors(vals) : vals[i] \in greenlistSet })

\* C4: with dedupe the output holds no element twice; without it the output
\* has one entry for every surviving token, repeats included, less the
\* survivors that are in the exclusion set.
DedupeProperty == Ran => DedupeHolds(ValuesOf(RunTokens))

\* a run without dedupe that shows a domain twice and excluded another
DedupePropertyWitness ==
  Ran /\ ~dedupe /\ HasRepeat(domains) /\ stats.greenRemoved > 0

\* the first index of a value in a list that holds it
FirstIndex(list, v) == CHOOSE i \in 1..Len(list) : list[i] = v /\ \A j \in 1..(i - 1) : list[j] # v

\* the canonical domains of the surviving tokens, in token order
SurvivorValues(vals) ==
  [k \in 1..Cardinality(Survivors(vals)) |-> vals[Kth(Survivors(vals), k)]]

\* the positions of the cleaned list the exclusion set leaves
KeptPositions(cleaned) == { i \in 1..Len(cleaned) : cleaned[i] \notin greenlistSet }

\* the order property of a run, given the canonical domains of its surviving
\* tokens and its cleaned list
OrderHolds(survivors, cleaned) ==
  /\ (~dedupe /\ greenlist = <<>>) => domains = survivors
  /\ dedupe =>
       /\ Range(cleaned) = Range(survivors)
       /\ ~HasRepeat(cleaned)
       /\ \A i, j \in 1..Len(cleaned) :
            i < j => FirstIndex(survivors, cleaned[i]) < FirstIndex(survivors, cleaned[j])
  /\ domains = [k \in 1..Cardinality(KeptPositions(cleaned)) |->
                  cleaned[Kth(KeptPositions(cleaned), k)]]

\* C5: output order follows input order.  Without dedupe and with an empty
\* exclusion set the output is the canonical domains of the surviving tokens
\* in token order; with dedupe the cleaned list holds each distinct value once,
\* ordered by first occurrence; the exclusion filter keeps the order of what
\* it leaves.
OrderProperty == Ran => OrderHolds(SurvivorValues(ValuesOf(RunTokens)), RunCleaned)

\* a domain comes before and after another one
RepeatAround(vals) ==
  \E i, j, k \in Survivors(vals) :
    i < j /\ j < k /\ vals[i] = vals[k] /\ vals[i] # vals[j]

\* a run with dedupe in which a repeated domain comes before and after
\* another one, and both are shown
OrderPropertyWitness ==
  Ran /\ dedupe /\ Len(domains) = 2 /\ RepeatAround(ValuesOf(RunTokens))

\* new URL throws on the token (after its "domain:" prefix is stripped)
UrlThrows(t) == ~UrlHostname(ensureProtocol(StripPrefixIgnoreCase(Trim(t), DomainPrefix))).ok

\* what toDisavowDomain may return: null or "domain:" before a host
NullOrDomain(c) ==
  c # Raised /\ (c = Null \/ (StartsWith(c, DomainPrefix) /\ Len(HostOf(c)) > 0))

\* the run over toks, which gave vals, completed and dropped only what it must
RunCompletes(toks, vals) ==
  /\ \A i \in 1..Len(toks) : NullOrDomain(toDisavowDomain(toks[i]))
  /\ status.kind \in {"trimmed", "nothing"}
  /\ stats.total = Len(toks)
  /\ Range(domains) = { vals[i] : i \in Survivors(vals) } \ greenlistSet

\* C7: canonicalizing a token never raises: it gives null or a canonical
\* domain.  A run over any text completes: it counts every token, drops the
\* tokens that are rejected (and, with skipNonUrl, those that are no URL) and
\* shows the canonical domain of every other token, excluded ones apart.
NoBatchFailure == Ran => RunCompletes(RunTokens, ValuesOf(RunTokens))

\* a rejected token, and a token new URL throws on whose domain is shown
Degraded(toks, vals) ==
  /\ \E i \in 1..Len(toks) : toDisavowDomain(toks[i]) = Null
  /\ \E i \in Survivors(vals) : UrlThrows(toks[i]) /\ vals[i] \in Range(domains)

\* a run over a text with a rejected token and a token new URL throws on,
\* whose canonical domain is shown
NoBatchFailureWitness == Ran /\ Degraded(RunTokens, ValuesOf(RunTokens))

\* the counts of a run with that many tokens and that cleaned list
CountsHold(total, cleaned) ==
  /\ stats.total = total
  /\ stats.output = Len(domains)
  /\ stats.greenRemoved = Len(cleaned) - Len(domains)
  /\ stats.total >= Len(cleaned)
  /\ Len(cleaned) >= Len(domains)
  /\ Len(domains) >= 0

\* C8: after a run, total is the number of tokens of the text, whatever the
\* flags and the exclusion set; output is the length of the shown list;
\* greenRemoved is the length of the cleaned list less that of the shown list;
\* and total >= cleaned >= shown >= 0.
CountsProperty == Ran => CountsHold(Len(RunTokens), RunCleaned)

\* a run that counted more tokens than its cleaned list holds, excluded a
\* domain and showed another
CountsPropertyWitness ==
  /\ Ran
  /\ stats.total > stats.output + stats.greenRemoved
  /\ stats.greenRemoved > 0
  /\ Len(domains) > 0

\* the classifier as the specification states it, on a trimmed token
LooksLikeUrlPolicy(t) ==
  /\ t # <<>>
  /\ \/ \E p \in {DomainPrefix, HttpPrefix, HttpsPrefix, WwwPrefix} :
          StartsWith(ToLowerCase(t), p)
     \/ "." \in Range(t)

\* the tokens a run hands to the canonicalizer, by the specification
PassedOn(toks) == { i \in 1..Len(toks) : skipNonUrl => LooksLikeUrlPolicy(toks[i]) }

\* the canonical domains of the tokens handed to the canonicalizer
PassedValues(toks, passed) == { toDisavowDomain(toks[i]) : i \in passed }

\* the classifier follows the policy on toks, and the run shows the canonical
\* domains of the tokens the policy passes on and of no other
ClassifierHolds(toks, passed) ==
  /\ \A i \in 1..Len(toks) : looksLikeUrl(toks[i]) = LooksLikeUrlPolicy(toks[i])
  /\ ~looksLikeUrl(<<>>)
  /\ Range(domains) = PassedValues(toks, passed) \ ({Null} \cup greenlistSet)
  /\ ~dedupe =>
       stats.output + stats.greenRemoved
         = Cardinality({ i \in passed : toDisavowDomain(toks[i]) # Null })

\* C10: looksLikeUrl is true exactly of the tokens that start, in any case,
\* with "domain:", "http://", "https://" or "www.", or hold a "."; it is false
\* of the empty string.  With skipNonUrl a token it is false of contributes no
\* canonical domain; without it every token goes to the canonicalizer.
ClassifierProperty == Ran => ClassifierHolds(RunTokens, PassedOn(RunTokens))

\* a token that is no URL but has a canonical domain, and a token that is one
\* whose canonical domain is shown
Classified(toks) ==
  /\ \E i \in 1..Len(toks) : ~looksLikeUrl(toks[i]) /\ toDisavowDomain(toks[i]) # Null
  /\ \E i \in 1..Len(toks) :
       looksLikeUrl(toks[i]) /\ toDisavowDomain(toks[i]) \in Range(domains)

\* a run with skipNonUrl that dropped a token that is no URL, though it has a
\* canonical domain, and showed the canonical domain of a token that is one
ClassifierPropertyWitness == Ran /\ skipNonUrl /\ Classified(RunTokens)

(***************************************************************************)
(* Properties of the tokenizers, under SpecTokenize                        *)
(***************************************************************************)

\* the delimiters of the tokenizer
Delimiters == {"\n", "\r", ",", ";", "\t"}

\* the starts of the maximal delimiter-free segments of text that are not
\* empty after trimming
SegmentStarts ==
  { i \in 1..Len(text) :
      /\ text[i] \notin Delimiters
      /\ i = 1 \/ text[i-1] \in Delimiters
      /\ Trim(SubSeq(text, i, FirstIn(text, i, Delimiters) - 1)) # <<>> }

\* the segment that starts at i
Segment(i) == SubSeq(text, i, FirstIn(text, i, Delimiters) - 1)

\* C9: the tokens of a raw text are its maximal delimiter-free segments,
\* trimmed, in order, without those that are empty after trimming: no token is
\* empty, starts or ends with white space, or holds a delimiter; adjacent
\* delimiters give no token; repeats are kept; the empty text has no token.
\* Both tokenizers (of parseDomains and of normalizeGreenEntries) do this.
TokenizerProperty ==
  stage = "tokens" =>
    /\ tokens = [k \in 1..Cardinality(SegmentStarts) |-> Trim(Segment(Kth(SegmentStarts, k)))]
    /\ \A k \in 1..Len(tokens) :
         /\ tokens[k] # <<>>
         /\ tokens[k][1] \notin WhiteSpace
         /\ tokens[k][Len(tokens[k])] \notin WhiteSpace
         /\ \A i \in 1..Len(tokens[k]) : tokens[k][i] \notin Delimiters
    /\ text = <<>> => tokens = <<>>
    /\ greenLines = tokens

\* a text with two adjacent delimiters between two equal tokens
TokenizerPropertyWitness ==
  /\ stage = "tokens"
  /\ \E i \in 1..(Len(text) - 1) : text[i] \in Delimiters /\ text[i+1] \in Delimiters
  /\ Len(tokens) = 2 /\ tokens[1] = tokens[2]

(***************************************************************************)
(* Properties of the exclusion set builder, under SpecGreen: text is the   *)
(* greenlist text that was in the paste box.                               *)
(***************************************************************************)

\* the greenlist text has been applied
Pasted == stage = "ui" /\ text # <<>> /\ greenlistInput = <<>>

\* the non-null canonical domains of tokens
CanonicalSet(toks) == { toDisavowDomain(toks[i]) : i \in 1..Len(toks) } \ {Null}

\* the greenlist is the set of the canonical domains of toks, each held once,
\* those of the tokens the classifier rejects included
BuiltFrom(toks) ==
  /\ Range(greenlist) = CanonicalSet(toks)
  /\ ~HasRepeat(greenlist)
  /\ \A i \in 1..Len(toks) :
       (~looksLikeUrl(toks[i]) /\ toDisavowDomain(toks[i]) # Null)
         => toDisavowDomain(toks[i]) \in Range(greenlist)

\* C11: the exclusion set built from a greenlist text is exactly the set of
\* the non-null canonical domains of its tokens; the classifier is not
\* applied, whatever skipNonUrl is, so a token it rejects is in the set.
ExclusionSetBuilt ==
  /\ normalizeGreenEntries(<<>>) = <<>>
  /\ Pasted => BuiltFrom(ParseTokens(text))

\* a token of toks the classifier rejects whose canonical domain is in the
\* greenlist and was excluded from the run
RejectedExcludes(toks, cleaned) ==
  \E i \in 1..Len(toks) :
    /\ ~looksLikeUrl(toks[i])
    /\ toDisavowDomain(toks[i]) \in Range(greenlist)
    /\ toDisavowDomain(toks[i]) \in Range(cleaned)
    /\ toDisavowDomain(toks[i]) \notin Range(domains)

\* a greenlist with the canonical domain of a bare word, applied with
\* skipNonUrl set, excludes the entry a run without skipNonUrl makes of it
ExclusionSetBuiltWitness ==
  /\ Pasted /\ lastProcessed # Null /\ ~skipNonUrl /\ stats.greenRemoved > 0
  /\ status.kind = "skip_off"
  /\ RejectedExcludes(ParseTokens(text), RunCleaned)

(***************************************************************************)
(* Properties of the exclusion set in a session, under SpecInput           *)
(***************************************************************************)

\* a step of a handler that is no load, clear or reset of the greenlist
OtherHandlerStep ==
  \/ handleProcess
  \/ handleToggleDedupe
  \/ handleToggleSkip
  \/ \E value \in InputTexts : setRawInput(value)
  \/ \E value \in GreenTexts : setGreenlistInput(value)
  \/ \E file \in Files : handleFileUploadStart(file)
  \/ \E read \in pending : handleFileUploadDone(read)

\* a step of handleApplyGreenlistPaste, which empties the paste box
PasteStep == greenlistInput' = <<>> /\ handleApplyGreenlistPaste

\* a step of the session replaces the greenlist wholesale or leaves it alone
GreenlistStep ==
  /\ PasteStep => Range(greenlist') = CanonicalSet(ParseTokens(greenlistInput))
  /\ greenlist' = <<>> \/ ~(handleClearGreenlist \/ reset)
  /\ greenlist' = greenlist \/ ~OtherHandlerStep

\* C12: the exclusion set changes only by a load, a clear or a reset, and is
\* then replaced wholesale: after a greenlist text is applied it is the set
\* built from that text; Format, the two toggles, an edit of the input and the
\* upload of an input file leave it as it is.
GreenlistFrame == [][GreenlistStep]_vars

\* a greenlist that was in force in a run, and is still there for an input
\* text edited since
GreenlistFrameWitness ==
  /\ stage = "ui"
  /\ Len(greenlist) > 0
  /\ status.kind = "trimmed" /\ stats.greenRemoved > 0
  /\ lastProcessed # Null /\ rawInput # lastProcessed

(***************************************************************************)
(* Properties of Format on a blank input, under SpecBlank                  *)
(***************************************************************************)

\* a step of a toggle or of a change of the greenlist
ToggleOrGreenlistStep ==
  \/ handleToggleDedupe
  \/ handleToggleSkip
  \/ handleApplyGreenlistPaste
  \/ handleClearGreenlist

\* Format on a blank input shows the empty result and forgets the last input;
\* with no last input, a toggle or a greenlist change shows nothing new
BlankStep ==
  /\ (Trim(rawInput) = <<>> /\ handleProcess) =>
       /\ domains' = <<>>
       /\ stats' = ZeroStats
       /\ status' = Status("nothing", 0, 0)
       /\ lastProcessed' = Null
  /\ (lastProcessed = Null /\ ToggleOrGreenlistStep) =>
       /\ domains' = domains
       /\ stats' = stats
       /\ lastProcessed' = Null

\* C13: an empty or white-space-only input gives total 0 and empty cleaned
\* and shown lists, whatever the flags and the exclusion set, as the normal
\* result "Nothing to format."; Format on it clears lastProcessed, so that
\* later toggles and greenlist changes do not run the pipeline again.
BlankInputProperty == [][BlankStep]_vars

\* Format has run on a white-space-only input with a greenlist in force, and
\* both flags have been toggled
BlankInputPropertyWitness ==
  /\ stage = "ui"
  /\ rawInput # <<>> /\ Trim(rawInput) = <<>>
  /\ status = Status("nothing", 0, 0)
  /\ lastProcessed = Null /\ domains = <<>> /\ stats = ZeroStats
  /\ Len(greenlist) > 0 /\ ~dedupe /\ ~skipNonUrl

(***************************************************************************)
(* Properties of a failed strict decode, under SpecDecode                  *)
(***************************************************************************)

\* the statuses of a failed upload
FailedStatuses == { Status("utf8_failed", 0, 0), Status("read_failed", 0, 0) }

\* the completion of the upload read, of either kind
UploadDone(read) == handleFileUploadDone(read) \/ handleGreenlistUploadDone(read)

\* the completion of an upload whose strict decode throws sets the status of
\* the failure and nothing else
FailedUploadStep ==
  \A read \in pending :
    (DecodeThrows(read) /\ UploadDone(read)) =>
      /\ status' \in FailedStatuses
      /\ stats' = stats
      /\ domains' = domains
      /\ rawInput' = rawInput
      /\ lastProcessed' = lastProcessed
      /\ greenlist' = greenlist

\* C14: a failed strict UTF-8 decode of an uploaded file, input or greenlist,
\* is reported by a status of its own only: the counts, the shown domains, the
\* input text, lastProcessed and the exclusion set stay as they were, and the
\* pipeline does not run on the file.
FailedDecodeProperty == [][FailedUploadStep]_vars

\* a greenlist upload failed while a run with a greenlist in force is shown
FailedDecodePropertyWitness ==
  /\ stage = "ui"
  /\ status = Status("read_failed", 0, 0)
  /\ Len(domains) > 0 /\ stats.total > 0
  /\ Len(greenlist) > 0 /\ lastProcessed # Null

(***************************************************************************)
(* Properties of the display in a session without uploads, under SpecEdit  *)
(***************************************************************************)

\* the shown domains and counts are those of result
Displays(result) == domains = result.domains /\ stats = result.stats

\* the display is that of a run on lastProcessed with the flags and the
\* greenlist as they are now, or empty when there is no lastProcessed
DisplayIsCurrent ==
  /\ IF lastProcessed = Null
       THEN domains = <<>> /\ stats = ZeroStats
       ELSE Displays(runProcessing(lastProcessed, dedupe, skipNonUrl, greenlistSet, ""))
  /\ \A i \in 1..Len(domains) : domains[i] \notin greenlistSet

\* C15: with every handler atomic, after any sequence of Format, the toggles,
\* greenlist paste and clear, Reset and input edits, the display is empty if
\* lastProcessed is null, and otherwise is the result of the pipeline on
\* lastProcessed (not on the edited input) with the current flags and
\* greenlist; no member of the current greenlist is shown.
DisplayConsistent == stage = "ui" => DisplayIsCurrent

\* both toggles and a greenlist were applied after Format, and the input was
\* edited since; the greenlist removed an entry and left another
DisplayConsistentWitness ==
  /\ stage = "ui"
  /\ lastProcessed # Null /\ rawInput # lastProcessed
  /\ ~dedupe /\ ~skipNonUrl /\ Len(greenlist) > 0
  /\ status.kind = "greenlist_applied"
  /\ stats.greenRemoved > 0 /\ Len(domains) > 0

(***************************************************************************)
(* Properties of the display around a greenlist upload, under SpecRace     *)
(***************************************************************************)

\* C16: when a greenlist upload interleaves with Format, the toggles or
\* Reset, then once no upload is in flight the display is the result of the
\* pipeline on the current lastProcessed with the current flags and the
\* loaded greenlist (empty if lastProcessed is null).
DisplayConsistentAfterUpload == (stage = "ui" /\ pending = {}) => DisplayIsCurrent

====
